---- MODULE Spec2Model ----
(***************************************************************************)
(* The rule engine of pulley-core (rules/rule.js), the rule modules that   *)
(* use it (rules/objects.js, rules/filesystem.js) and a caller that        *)
(* evaluates, extracts and inverts the exported rules (Spec); and the test *)
(* callbacks of the path, key and string rules and of an inverted rule,    *)
(* each called directly on inputs drawn from bounded sets (RulesSpec).     *)
(*                                                                         *)
(* JavaScript values are tagged tuples of strings: <<"undefined">>,        *)
(* <<"string", s>> and <<"object", id>>, where id names a Rule instance    *)
(* of the heap.  A promise that settles is the record of its settlement:   *)
(* kind "Pass" (resolved, msg is the value), kind "Fail" (rejected, msg    *)
(* is the message of the error).  A call that returns a plain value has    *)
(* kind "return", one that throws synchronously has kind "throw".          *)
(***************************************************************************)
EXTENDS Integers, Sequences, FiniteSets, TLC

\* Longest argument list a caller passes to a test.
MaxParams == 2
\* Most makeInverseRule mutations applied to the heap in one run.
MaxInverts == 2
\* Most segments of a path handed to a path rule.
MaxPathLen == 2
\* Most own keys of an object, and most elements of a key list.
MaxKeys == 2
\* Longest string handed to a string rule.
MaxStrLen == 3

---------------------------------------------------------------------------
\* JavaScript values

Undefined == <<"undefined">>
Str(s) == <<"string", s>>
Obj(id) == <<"object", id>>

IsObj(v) == Len(v) = 2 /\ v[1] = "object"

\* Truthiness of a value: undefined and the empty string are falsy.
Truthy(v) == v # Undefined /\ v # Str("")

\* a || b
JsOr(a, b) == IF Truthy(a) THEN a ELSE b

\* `${v}` inside a template literal.
Template(v) == IF v = Undefined THEN "undefined" ELSE v[2]

\* The message of new Error(v): the empty string when v is undefined,
\* String(v) otherwise.
ErrorMessage(v) == IF v = Undefined THEN Str("") ELSE Str(Template(v))

\* The i-th positional parameter of a call made with the list params.
Param(params, i) == IF i <= Len(params) THEN params[i] ELSE Undefined

\* Settlements.
Pass(v) == [kind |-> "Pass", msg |-> v]
Fail(m) == [kind |-> "Fail", msg |-> m]
Returned(v) == [kind |-> "return", msg |-> v]
Threw(m) == [kind |-> "throw", msg |-> m]
NoResult == [kind |-> "none", msg |-> Undefined]

\* The message of the TypeError raised by reading property p of undefined.
TypeErrorMessage(p) ==
    Str("Cannot read properties of undefined (reading '" \o p \o "')")

---------------------------------------------------------------------------
\* The test callbacks of the rule modules

\* objects.js, objectExists
ObjectExistsTest(params) ==
    LET obj == Param(params, 1)
        objName == JsOr(Param(params, 2), Str("object"))
    IN  IF Truthy(obj)
        THEN Pass(Str("Object '" \o Template(objName) \o "' exists"))
        ELSE Fail(Str("Required object '" \o Template(objName)
                        \o "' does not exist"))

\* objects.js, objectDoesNotExist
ObjectDoesNotExistTest(params) ==
    LET obj == Param(params, 1)
        objName == JsOr(Param(params, 2), Str("object"))
    IN  IF ~Truthy(obj)
        THEN Pass(Str("Object '" \o Template(objName) \o "' does not exist"))
        ELSE Fail(Str("Disallowed object '" \o Template(objName)
                        \o "' exists"))

\* filesystem.js, pathExists: fs has no property promisify, so reading
\* fs.promisify.access throws a TypeError inside the async callback before
\* the file system is consulted; the promise rejects with that error.
PathExistsTest(params) == Fail(TypeErrorMessage("access"))

BaseTest(base, params) ==
    CASE base = "objectExists" -> ObjectExistsTest(params)
      [] base = "objectDoesNotExist" -> ObjectDoesNotExistTest(params)
      [] base = "pathExists" -> PathExistsTest(params)

\* Strings

\* s.startsWith(p)
StartsWith(s, p) == Len(s) >= Len(p) /\ SubSeq(s, 1, Len(p)) = p

\* arr.join(sep) for an array of strings.
RECURSIVE Join(_, _)
Join(arr, sep) ==
    IF Len(arr) = 0 THEN ""
    ELSE IF Len(arr) = 1 THEN arr[1]
    ELSE arr[1] \o sep \o Join(Tail(arr), sep)

\* Paths.  An absolute, normalized POSIX path is the sequence of its
\* segments; the root is the empty sequence.
PathString(segs) == "/" \o Join(segs, "/")

\* The number of leading segments two paths share.
RECURSIVE CommonPrefix(_, _)
CommonPrefix(from, to) ==
    IF Len(from) = 0 \/ Len(to) = 0 \/ from[1] # to[1] THEN 0
    ELSE 1 + CommonPrefix(Tail(from), Tail(to))

\* path.relative(from, to): one ".." for each segment of from below the
\* shared prefix, then the segments of to below it; "" when they are equal.
PathRelative(from, to) ==
    LET k == CommonPrefix(from, to)
        ups == [i \in 1..(Len(from) - k) |-> ".."]
    IN  Join(ups \o SubSeq(to, k + 1, Len(to)), "/")

\* path.isAbsolute(p)
PathIsAbsolute(p) == StartsWith(p, "/")

\* filesystem.js, isChildOfPath
IsChildOfPathTest(filepathA, filepathB) ==
    LET relative == PathRelative(filepathA, filepathB)
        isChild == /\ relative # ""
                   /\ ~StartsWith(relative, "..")
                   /\ ~PathIsAbsolute(relative)
    IN  IF isChild
        THEN Pass(Str("'" \o PathString(filepathB) \o "' is a child of '"
                        \o PathString(filepathA) \o "'"))
        ELSE Fail(Str("'" \o PathString(filepathB) \o "' is not a child of '"
                        \o PathString(filepathA) \o "'"))

\* Objects.  An object is the sequence of its own keys in insertion order,
\* which is the order of Object.keys; its values play no part.

\* obj.hasOwnProperty(key)
HasOwnProperty(obj, key) == \E i \in 1..Len(obj) : obj[i] = key

\* Object.keys(obj)
ObjectKeys(obj) == obj

\* arr.includes(x)
Includes(arr, x) == \E i \in 1..Len(arr) : arr[i] = x

\* A hasOneOfKeys without the check for more than one key, as
\* hasAtLeastOneOfKeys.
HasOneOfKeysTest_AtLeastOne(obj, keys) ==
    LET Owned(key) == HasOwnProperty(obj, key)
        overlappedKeys == SelectSeq(keys, Owned)
    IN  IF Len(overlappedKeys) = 0
        THEN Fail(Str("Must specify one of missing keys: " \o Join(keys, ", ")))
        ELSE Pass(Str("Specified one of keys: " \o Join(keys, ", ")))

\* strings.js (key rules), hasOneOfKeys
HasOneOfKeysTest(obj, keys) ==
    LET Owned(key) == HasOwnProperty(obj, key)
        overlappedKeys == SelectSeq(keys, Owned)
    IN  IF Len(overlappedKeys) = 0
        THEN Fail(Str("Must specify one of missing keys: " \o Join(keys, ", ")))
        ELSE IF Len(overlappedKeys) > 1
        THEN Fail(Str("More than one of keys specified: " \o Join(keys, ", ")))
        ELSE Pass(Str("Specified one of keys: " \o Join(keys, ", ")))

\* A hasOnlyKeys that walks keys and looks them up in obj, as hasKeys.
HasOnlyKeysTest_AsHasKeys(obj, keys) ==
    LET Missing(key) == ~HasOwnProperty(obj, key)
        unknownKeys == SelectSeq(keys, Missing)
    IN  IF Len(unknownKeys) > 0
        THEN Fail(Str("Object has unknown keys: " \o Join(unknownKeys, ", ")))
        ELSE Pass(Str("Object has allowed keys only"))

\* strings.js (key rules), hasOnlyKeys
HasOnlyKeysTest(obj, keys) ==
    LET Unknown(key) == ~Includes(keys, key)
        unknownKeys == SelectSeq(ObjectKeys(obj), Unknown)
    IN  IF Len(unknownKeys) > 0
        THEN Fail(Str("Object has unknown keys: " \o Join(unknownKeys, ", ")))
        ELSE Pass(Str("Object has allowed keys only"))

\* A stringIsMinLength that compares with > in place of >=.
StringIsMinLengthTest_Strict(str, length) ==
    IF Len(str) > length
    THEN Pass(Str("'" \o str \o "' length is " \o ToString(length)))
    ELSE Fail(Str("'" \o str \o "' length is " \o ToString(Len(str))
                    \o ", not " \o ToString(length) \o " or greater"))

\* strings.js, stringIsMinLength
StringIsMinLengthTest(str, length) ==
    IF Len(str) >= length
    THEN Pass(Str("'" \o str \o "' length is " \o ToString(length)))
    ELSE Fail(Str("'" \o str \o "' length is " \o ToString(Len(str))
                    \o ", not " \o ToString(length) \o " or greater"))

\* The test installed by makeInverseRule, given the settlement of the
\* original test: a rejection is caught and its message returned, a
\* resolution is thrown as a new Error.
InvertedTest(orig) ==
    IF orig.kind = "Fail"
    THEN Pass(orig.msg)
    ELSE Fail(ErrorMessage(orig.msg))

\* A test function is a callback of a rule module wrapped in depth
\* closures of makeInverseRule, each holding the test it replaced.
RECURSIVE RunTest(_, _)
RunTest(test, params) ==
    IF test.depth = 0
    THEN BaseTest(test.base, params)
    ELSE InvertedTest(RunTest([test EXCEPT !.depth = @ - 1], params))

---------------------------------------------------------------------------
\* Rule instances

RuleIds == {"objectExists", "objectDoesNotExist", "pathExists"}

\* new Rule(name, brief, test)
Rule(name, brief, test) ==
    [alloc |-> TRUE, name |-> name, brief |-> brief, test |-> test]

NoRule ==
    [alloc |-> FALSE, name |-> Undefined, brief |-> Undefined,
     test |-> [base |-> "none", depth |-> 0]]

\* v.test(...params) evaluated in heap h.
CallTest(v, params, h) ==
    IF IsObj(v)
    THEN RunTest(h[v[2]].test, params)
    ELSE Fail(TypeErrorMessage("test"))

---------------------------------------------------------------------------
\* Rule references and the engine's operations (rules/rule.js)

\* A rule reference: a bare value (isArray FALSE, the value in val) or an
\* array (isArray TRUE, its elements in elems).
BareRef(v) == [isArray |-> FALSE, val |-> v, elems |-> <<>>]
ArrayRef(es) == [isArray |-> TRUE, val |-> Undefined, elems |-> es]

\* arr[i] for a zero-based index i: undefined past the end.
Index(arr, i) == IF i + 1 <= Len(arr) THEN arr[i + 1] ELSE Undefined

\* arr.slice(n)
Slice(arr, n) == SubSeq(arr, n + 1, Len(arr))

\* validateRule: the Rule instance the reference names.
RuleInstanceOf(rule) == IF rule.isArray THEN Index(rule.elems, 0) ELSE rule.val

\* A validateRule that hands the whole array to the test (rule.slice(0)).
TestParamsOf_WholeArray(rule) == IF rule.isArray THEN rule.elems ELSE <<>>

\* validateRule: the parameters handed to the test.
TestParamsOf(rule) == IF rule.isArray THEN Slice(rule.elems, 1) ELSE <<>>

\* validateRule: the invocations of a rule's test it makes, each with the
\* instance, the function called, the parameters and the settlement.
ValidateRuleCalls(rule, h) ==
    LET ruleInstance == RuleInstanceOf(rule)
        testParams == TestParamsOf(rule)
    IN  IF IsObj(ruleInstance)
        THEN << [obj |-> ruleInstance,
                 test |-> h[ruleInstance[2]].test,
                 params |-> testParams,
                 outcome |-> CallTest(ruleInstance, testParams, h)] >>
        ELSE << >>

\* A validateRule that catches the rejection of the test and resolves with
\* its message.
ValidateRuleResult_Caught(rule, h) ==
    LET calls == ValidateRuleCalls(rule, h)
    IN  IF calls # << >>
        THEN Pass(calls[1].outcome.msg)
        ELSE Fail(TypeErrorMessage("test"))

\* validateRule: the settlement of the promise it returns.  The async
\* function returns the promise of the test, so it settles as that promise
\* does; reading test of a value that is no object rejects it.
ValidateRuleResult(rule, h) ==
    LET calls == ValidateRuleCalls(rule, h)
    IN  IF calls # << >>
        THEN calls[1].outcome
        ELSE Fail(TypeErrorMessage("test"))

\* extractRule: the invocations of a rule's test it makes.
ExtractRuleCalls(rule, h) == << >>

\* An extractRule that returns rule[1] of an array.
ExtractRule_SecondElement(rule) ==
    IF rule.isArray THEN Index(rule.elems, 1) ELSE rule.val

\* extractRule: the value it returns.
ExtractRule(rule) == IF rule.isArray THEN Index(rule.elems, 0) ELSE rule.val

\* makeInverseRule: the fields of the instance after the call.  invertedRule
\* is the very object passed as rule, and each field is assigned on it.
InvertedFields(r, name, brief) ==
    [alloc |-> TRUE,
     name |-> JsOr(name, Str("Not " \o Template(r.name))),
     brief |-> JsOr(brief, Str("Not " \o Template(r.brief))),
     test |-> [r.test EXCEPT !.depth = @ + 1]]

\* makeInverseRule: the heap after the call.
MakeInverseRuleHeap(rule, name, brief, h) ==
    IF IsObj(rule)
    THEN [h EXCEPT ![rule[2]] = InvertedFields(h[rule[2]], name, brief)]
    ELSE h

\* makeInverseRule: what the call gives its caller.  The function body has
\* no return statement; reading test of undefined throws.
MakeInverseRuleResult(rule, name, brief, h) ==
    IF IsObj(rule)
    THEN Returned(Undefined)
    ELSE Threw(TypeErrorMessage("test"))

---------------------------------------------------------------------------
\* State

VARIABLES
    heap,      \* the Rule instances: RuleIds -> their fields
    exports,   \* what the loaded rule modules export, by name
    loaded,    \* the rule modules that have been loaded
    fs,        \* the paths that exist in the file system
    last,      \* the engine operation the caller made last
    probe      \* the test callback called directly last, with its outcome

engine == <<heap, exports, loaded, fs, last>>

vars == <<heap, exports, loaded, fs, last, probe>>

ExportNames ==
    {"objectExists", "objectDoesNotExist", "pathExists", "pathDoesNotExist"}

Paths == {"/a"}

\* The values a caller passes to tests.
ArgVals == {Str(""), Str("/a")}

\* The optional name and brief a caller passes to makeInverseRule.
Overrides == {Undefined, Str(""), Str("Custom")}

RECURSIVE ParamLists(_)
ParamLists(n) ==
    IF n = 0 THEN {<< >>}
    ELSE ParamLists(n - 1)
         \cup {Append(ps, a) : ps \in {q \in ParamLists(n - 1) : Len(q) = n - 1},
                               a \in ArgVals}

Params == ParamLists(MaxParams)

\* The names a caller can use: those of the loaded modules.
Visible ==
    {n \in ExportNames :
        \/ n \in {"objectExists", "objectDoesNotExist"} /\ "objects" \in loaded
        \/ n \in {"pathExists", "pathDoesNotExist"} /\ "filesystem" \in loaded}

\* The rule references a caller can write.
Refs ==
    {BareRef(exports[n]) : n \in Visible}
    \cup {ArrayRef(<<exports[n]>> \o ps) : n \in Visible, ps \in Params}

RECURSIVE SumDepth(_, _)
SumDepth(h, ids) ==
    IF ids = {} THEN 0
    ELSE LET id == CHOOSE x \in ids : TRUE
         IN  h[id].test.depth + SumDepth(h, ids \ {id})

Inversions(h) == SumDepth(h, RuleIds)

\* A direct call of a test callback: a and b are its arguments as sequences
\* of strings (a path's segments, an object's keys, a key list, a string as
\* the sequence of itself, a settlement as its kind followed by its
\* message), n is its numeric argument.
NoProbe ==
    [rule |-> "none", a |-> << >>, b |-> << >>, n |-> 0, out |-> NoResult]

NoOp ==
    [op |-> "none", ref |-> BareRef(Undefined), name |-> Undefined,
     brief |-> Undefined, ret |-> NoResult, calls |-> << >>,
     pre |-> [id \in RuleIds |-> NoRule], chain |-> 0,
     origin |-> NoRule.test]

Init ==
    /\ heap = [id \in RuleIds |-> NoRule]
    /\ exports = [n \in ExportNames |-> Undefined]
    /\ loaded = {}
    /\ fs = {}
    /\ last = NoOp
    /\ probe = NoProbe

---------------------------------------------------------------------------
\* Actions

\* require('./objects.js'): the module constructs its two rules.
LoadObjects ==
    /\ "objects" \notin loaded
    /\ loaded' = loaded \cup {"objects"}
    /\ heap' = [heap EXCEPT
                 !["objectExists"] =
                     Rule(Str("Object exists"), Str("Confirms object exists"),
                          [base |-> "objectExists", depth |-> 0]),
                 !["objectDoesNotExist"] =
                     Rule(Str("Object does not exist"),
                          Str("Confirms object does not exist"),
                          [base |-> "objectDoesNotExist", depth |-> 0])]
    /\ exports' = [exports EXCEPT
                    !["objectExists"] = Obj("objectExists"),
                    !["objectDoesNotExist"] = Obj("objectDoesNotExist")]
    /\ UNCHANGED <<fs, last, probe>>

\* require('./filesystem.js'): the module constructs pathExists, then binds
\* pathDoesNotExist to what makeInverseRule(pathExists, ...) returns.
LoadFilesystem ==
    /\ "filesystem" \notin loaded
    /\ loaded' = loaded \cup {"filesystem"}
    /\ LET h1 == [heap EXCEPT !["pathExists"] =
                     Rule(Str("Path exists"), Str("Confirms that path exists"),
                          [base |-> "pathExists", depth |-> 0])]
           name == Str("Path does not exist")
           brief == Str("Confirms that path does not exist")
           r == MakeInverseRuleResult(Obj("pathExists"), name, brief, h1)
       IN  /\ heap' = MakeInverseRuleHeap(Obj("pathExists"), name, brief, h1)
           /\ exports' = [exports EXCEPT
                           !["pathExists"] = Obj("pathExists"),
                           !["pathDoesNotExist"] = r.msg]
    /\ UNCHANGED <<fs, last, probe>>

\* The caller evaluates a rule reference.
ValidateRule(rule) ==
    /\ last' = [NoOp EXCEPT
                 !.op = "validateRule", !.ref = rule, !.pre = heap,
                 !.calls = ValidateRuleCalls(rule, heap),
                 !.ret = ValidateRuleResult(rule, heap)]
    /\ UNCHANGED <<heap, exports, loaded, fs, probe>>

\* The caller extracts the rule of a reference.
DoExtractRule(rule) ==
    /\ last' = [NoOp EXCEPT
                 !.op = "extractRule", !.ref = rule, !.pre = heap,
                 !.calls = ExtractRuleCalls(rule, heap),
                 !.ret = Returned(ExtractRule(rule))]
    /\ UNCHANGED <<heap, exports, loaded, fs, probe>>

\* The caller inverts a value: an exported one, or (chained) the value the
\* makeInverseRule call just before gave it.
MakeInverseRule(rule, name, brief, chained) ==
    /\ Inversions(heap) < MaxInverts
    /\ last' = [NoOp EXCEPT
                 !.op = "makeInverseRule", !.ref = BareRef(rule),
                 !.name = name, !.brief = brief, !.pre = heap,
                 !.ret = MakeInverseRuleResult(rule, name, brief, heap),
                 !.chain = IF chained THEN last.chain + 1 ELSE 1,
                 !.origin = IF chained THEN last.origin
                            ELSE IF IsObj(rule) THEN heap[rule[2]].test
                            ELSE NoRule.test]
    /\ heap' = MakeInverseRuleHeap(rule, name, brief, heap)
    /\ UNCHANGED <<exports, loaded, fs, probe>>

\* The file system changes under the program.
FsCreate(p) ==
    /\ p \notin fs
    /\ fs' = fs \cup {p}
    /\ UNCHANGED <<heap, exports, loaded, last, probe>>

FsRemove(p) ==
    /\ p \in fs
    /\ fs' = fs \ {p}
    /\ UNCHANGED <<heap, exports, loaded, last, probe>>

Next ==
    \/ LoadObjects
    \/ LoadFilesystem
    \/ \E rule \in Refs : ValidateRule(rule)
    \/ \E rule \in Refs : DoExtractRule(rule)
    \/ \E n \in Visible, name \in Overrides, brief \in Overrides :
           MakeInverseRule(exports[n], name, brief, FALSE)
    \/ \E name \in Overrides, brief \in Overrides :
           /\ last.op = "makeInverseRule"
           /\ last.ret.kind = "return"
           /\ MakeInverseRule(last.ret.msg, name, brief, TRUE)
    \/ \E p \in Paths : FsCreate(p)
    \/ \E p \in Paths : FsRemove(p)

Spec == Init /\ [][Next]_vars

---------------------------------------------------------------------------
\* The test callbacks called directly, one call at a time

\* The names a path segment can have; a name may begin with two dots.
SegmentNames == {"x", "y", "..z"}

RECURSIVE SeqsUpTo(_, _)
SeqsUpTo(S, n) ==
    IF n = 0 THEN {<< >>}
    ELSE SeqsUpTo(S, n - 1)
         \cup {Append(q, e) : q \in {r \in SeqsUpTo(S, n - 1) : Len(r) = n - 1},
                              e \in S}

PathInputs == SeqsUpTo(SegmentNames, MaxPathLen)

\* isChildOfPath.test(filepathA, filepathB)
CallIsChildOfPath(filepathA, filepathB) ==
    /\ probe' = [rule |-> "isChildOfPath", a |-> filepathA, b |-> filepathB,
                 n |-> 0, out |-> IsChildOfPathTest(filepathA, filepathB)]
    /\ UNCHANGED engine

KeyNames == {"a", "b", "c"}

\* Objects: their own keys are distinct.
ObjInputs ==
    {q \in SeqsUpTo(KeyNames, MaxKeys) :
        \A i, j \in 1..Len(q) : i # j => q[i] # q[j]}

\* Key lists: an array may name a key twice.
KeysInputs == SeqsUpTo(KeyNames, MaxKeys)

StrInputs == {Join(q, "") : q \in SeqsUpTo({"a", "b"}, MaxStrLen)}

LengthInputs == 0..(MaxStrLen + 1)

\* hasOneOfKeys.test(obj, keys)
CallHasOneOfKeys(obj, keys) ==
    /\ probe' = [rule |-> "hasOneOfKeys", a |-> obj, b |-> keys,
                 n |-> 0, out |-> HasOneOfKeysTest(obj, keys)]
    /\ UNCHANGED engine

\* hasOnlyKeys.test(obj, keys)
CallHasOnlyKeys(obj, keys) ==
    /\ probe' = [rule |-> "hasOnlyKeys", a |-> obj, b |-> keys,
                 n |-> 0, out |-> HasOnlyKeysTest(obj, keys)]
    /\ UNCHANGED engine

\* stringIsMinLength.test(str, length)
CallStringIsMinLength(str, length) ==
    /\ probe' = [rule |-> "stringIsMinLength", a |-> <<str>>, b |-> << >>,
                 n |-> length, out |-> StringIsMinLengthTest(str, length)]
    /\ UNCHANGED engine

\* What the test of a rule given to makeInverseRule may settle with: a
\* narrative, an empty string or nothing on success; an error with a
\* message, with an empty one (new Error()), or a thrown value that has no
\* message property on failure.
SourceOutcomes ==
    {Pass(v) : v \in {Undefined, Str(""), Str("ok")}}
    \cup {Fail(m) : m \in {Undefined, Str(""), Str("bad")}}

\* invertedRule.test() over an original test that settles with orig.
CallInvertedTest(orig) ==
    /\ probe' = [rule |-> "invertedTest", a |-> <<orig.kind>> \o orig.msg,
                 b |-> << >>, n |-> 0, out |-> InvertedTest(orig)]
    /\ UNCHANGED engine

RulesNext ==
    \/ \E filepathA \in PathInputs, filepathB \in PathInputs :
           CallIsChildOfPath(filepathA, filepathB)
    \/ \E obj \in ObjInputs, keys \in KeysInputs : CallHasOneOfKeys(obj, keys)
    \/ \E obj \in ObjInputs, keys \in KeysInputs : CallHasOnlyKeys(obj, keys)
    \/ \E str \in StrInputs, length \in LengthInputs :
           CallStringIsMinLength(str, length)
    \/ \E orig \in SourceOutcomes : CallInvertedTest(orig)

RulesSpec == Init /\ [][RulesNext]_vars

---------------------------------------------------------------------------
\* What the claims speak of

\* The last operation was makeInverseRule(P, name?, brief?) on a Rule P.
InvertedARule == last.op = "makeInverseRule" /\ IsObj(last.ref.val)

\* P of that call, and its test as it was when the call was made.
SourceId == last.ref.val[2]
SourceTestBefore == last.pre[SourceId].test

\* The rule the call produced for its caller.
Produced == last.ret.msg
ProducedARule == last.ret.kind = "return" /\ IsObj(Produced)

\* The rule a reference names, read off the reference itself.
ReferencedRule(ref) ==
    IF ref.isArray
    THEN IF Len(ref.elems) >= 1 THEN ref.elems[1] ELSE Undefined
    ELSE ref.val

\* The elements of a reference after index 0, one by one.
TrailingElements(ref) ==
    IF ref.isArray /\ Len(ref.elems) >= 1
    THEN [i \in 1..(Len(ref.elems) - 1) |-> ref.elems[i + 1]]
    ELSE << >>

\* The test that makeInverseRule installed on P itself settles as the
\* complement of P's test before the call, message kept.
InstalledTestInvertsSource ==
    InvertedARule =>
        \A ps \in Params :
            LET o == RunTest(SourceTestBefore, ps)
                i == CallTest(last.ref.val, ps, heap)
            IN  /\ o.kind = "Fail" => i = Pass(o.msg)
                /\ o.kind = "Pass" => i = Fail(o.msg)

---------------------------------------------------------------------------
\* C1: on every argument list on which P's test fails with reason R, the
\* test of the rule that makeInverseRule(P) produced passes with narrative
\* exactly R.
C1_InverseOfFailPasses ==
    InvertedARule =>
        \A ps \in Params :
            LET o == RunTest(SourceTestBefore, ps)
            IN  o.kind = "Fail" =>
                    /\ last.ret.kind = "return"
                    /\ CallTest(Produced, ps, heap) = Pass(o.msg)

\* C2: on every argument list on which P's test passes with narrative N,
\* the test of the rule that makeInverseRule(P) produced fails with reason
\* exactly N.
C2_InverseOfPassFails ==
    InvertedARule =>
        \A ps \in Params :
            LET o == RunTest(SourceTestBefore, ps)
            IN  o.kind = "Pass" =>
                    /\ last.ret.kind = "return"
                    /\ CallTest(Produced, ps, heap) = Fail(o.msg)

\* C3: makeInverseRule never mutates its source rule: after the call P's
\* name, brief and test are what they were before it.
C3_SourceRuleUnchanged ==
    InvertedARule => heap[SourceId] = last.pre[SourceId]

\* C4: makeInverseRule(P) returns a Rule instance, distinct from P, that is
\* the inverse of P; it never returns undefined.
C4_ReturnsNewInverseRule ==
    InvertedARule =>
        /\ ProducedARule
        /\ Produced # last.ref.val
        /\ heap[Produced[2]].alloc
        /\ \A ps \in Params :
               CallTest(Produced, ps, heap).kind
                   # RunTest(SourceTestBefore, ps).kind

\* C5: once the filesystem rules module is loaded, pathExists and
\* pathDoesNotExist are both exported Rule instances, and for every path
\* pathExists passes exactly when the path exists and pathDoesNotExist
\* passes exactly when it does not.
C5_PathRulesComplementary ==
    "filesystem" \in loaded =>
        /\ IsObj(exports["pathExists"])
        /\ IsObj(exports["pathDoesNotExist"])
        /\ \A p \in Paths :
               LET e == CallTest(exports["pathExists"], <<Str(p)>>, heap)
                   n == CallTest(exports["pathDoesNotExist"], <<Str(p)>>, heap)
               IN  /\ e.kind = (IF p \in fs THEN "Pass" ELSE "Fail")
                   /\ n.kind = (IF p \in fs THEN "Fail" ELSE "Pass")

\* C6: validateRule(ref) invokes the referenced rule's test exactly once,
\* with exactly the elements of ref after index 0 in their order when ref
\* is a sequence, and with no arguments when ref is a bare rule.
C6_ValidateRuleForwardsParams ==
    (last.op = "validateRule" /\ IsObj(ReferencedRule(last.ref))) =>
        /\ Len(last.calls) = 1
        /\ last.calls[1].obj = ReferencedRule(last.ref)
        /\ last.calls[1].test = heap[ReferencedRule(last.ref)[2]].test
        /\ last.ref.isArray =>
               /\ Len(last.calls[1].params) = Len(last.ref.elems) - 1
               /\ \A i \in 1..Len(last.calls[1].params) :
                      last.calls[1].params[i] = last.ref.elems[i + 1]
        /\ ~last.ref.isArray => last.calls[1].params = << >>

\* C6 witness: a sequence reference with two different arguments was
\* evaluated.
C6_Witness ==
    /\ last.op = "validateRule"
    /\ last.ref.isArray
    /\ Len(last.ref.elems) = 3
    /\ IsObj(last.ref.elems[1])
    /\ last.ref.elems[2] # last.ref.elems[3]
    /\ Len(last.calls) = 1

\* C7: validateRule settles exactly as the rule's test does: a pass with
\* narrative N as a pass with N, a failure with reason R as a failure with
\* R, never one turned into the other and never another message.
C7_ValidateRulePassThrough ==
    (last.op = "validateRule" /\ IsObj(ReferencedRule(last.ref))) =>
        LET o == RunTest(heap[ReferencedRule(last.ref)[2]].test,
                         TrailingElements(last.ref))
        IN  /\ o.kind = "Pass" => last.ret = Pass(o.msg)
            /\ o.kind = "Fail" => last.ret = Fail(o.msg)
            /\ o.kind \in {"Pass", "Fail"}

\* C7 witness: a sequence reference with arguments was evaluated and the
\* test of its rule failed.
C7_Witness ==
    /\ last.op = "validateRule"
    /\ IsObj(ReferencedRule(last.ref))
    /\ last.ret.kind = "Fail"
    /\ last.ref.isArray
    /\ Len(last.ref.elems) >= 2

\* C8: inverting P and inverting the result again gives a rule whose
\* outcome equals P's original outcome on every argument list.
C8_DoubleInverseIsIdentity ==
    (last.op = "makeInverseRule" /\ last.chain = 2) =>
        /\ ProducedARule
        /\ \A ps \in Params :
               CallTest(Produced, ps, heap) = RunTest(last.origin, ps)

\* C9: extractRule(ref) returns ref itself when ref is a bare rule and the
\* element at index 0 when ref is a sequence, without invoking a test.
C9_ExtractRuleReturnsRule ==
    last.op = "extractRule" =>
        /\ last.calls = << >>
        /\ ~last.ref.isArray => last.ret = Returned(last.ref.val)
        /\ (last.ref.isArray /\ Len(last.ref.elems) >= 1) =>
               last.ret = Returned(last.ref.elems[1])

\* C9 witness: the rule of a sequence reference with arguments was
\* extracted.
C9_Witness ==
    /\ last.op = "extractRule"
    /\ last.ref.isArray
    /\ Len(last.ref.elems) >= 2
    /\ IsObj(last.ret.msg)

\* C10: the rule produced by makeInverseRule(P, name, brief) has the
\* supplied name and brief when they are supplied, and otherwise "Not "
\* followed by P's original name and "Not " followed by P's original brief.
C10_InverseNameAndBrief ==
    InvertedARule =>
        /\ ProducedARule
        /\ heap[Produced[2]].name =
               (IF last.name # Undefined THEN last.name
                ELSE Str("Not " \o Template(last.pre[SourceId].name)))
        /\ heap[Produced[2]].brief =
               (IF last.brief # Undefined THEN last.brief
                ELSE Str("Not " \o Template(last.pre[SourceId].brief)))

---------------------------------------------------------------------------
\* filepathB lies strictly below filepathA in the path hierarchy.
StrictDescendant(filepathA, filepathB) ==
    /\ Len(filepathB) > Len(filepathA)
    /\ \A i \in 1..Len(filepathA) : filepathB[i] = filepathA[i]

\* C11: isChildOfPath(filepathA, filepathB) passes exactly when filepathB is
\* a strict descendant of filepathA, and fails otherwise, also when
\* filepathB is outside filepathA or equal to it.
C11_IsChildOfPathExact ==
    probe.rule = "isChildOfPath" =>
        /\ StrictDescendant(probe.a, probe.b) => probe.out.kind = "Pass"
        /\ ~StrictDescendant(probe.a, probe.b) => probe.out.kind = "Fail"

\* The elements of a sequence, as a set.
Elements(q) == {q[i] : i \in 1..Len(q)}

\* C12: hasOneOfKeys(obj, keys) passes exactly when exactly one element of
\* keys is an own key of obj; it fails when none of keys is in obj and when
\* more than one is.
C12_HasOneOfKeysExact ==
    probe.rule = "hasOneOfKeys" =>
        LET present == {i \in 1..Len(probe.b) : probe.b[i] \in Elements(probe.a)}
        IN  /\ Cardinality(present) = 1 => probe.out.kind = "Pass"
            /\ Cardinality(present) = 0 => probe.out.kind = "Fail"
            /\ Cardinality(present) > 1 => probe.out.kind = "Fail"

\* C12 witness: of two listed keys the object has exactly one, and the test
\* passed.
C12_Witness ==
    /\ probe.rule = "hasOneOfKeys"
    /\ Len(probe.b) = 2
    /\ probe.b[1] \in Elements(probe.a)
    /\ probe.b[2] \notin Elements(probe.a)
    /\ probe.out.kind = "Pass"

\* The pieces of s between the occurrences of sep.
RECURSIVE SplitOn(_, _, _)
SplitOn(s, sep, i) ==
    IF i + Len(sep) - 1 > Len(s) THEN <<s>>
    ELSE IF SubSeq(s, i, i + Len(sep) - 1) = sep
    THEN <<SubSeq(s, 1, i - 1)>>
         \o SplitOn(SubSeq(s, i + Len(sep), Len(s)), sep, 1)
    ELSE SplitOn(s, sep, i + 1)

\* The keys a failure reason names: the list after its colon.
NamedKeys(msg) ==
    LET parts == SplitOn(msg, ": ", 1)
    IN  IF Len(parts) < 2 THEN {} ELSE Elements(SplitOn(parts[2], ", ", 1))

\* C13: hasOnlyKeys(obj, keys) passes exactly when every own key of obj is
\* an element of keys, and otherwise fails with a reason that names every
\* key of obj that is not in keys and no other key.
C13_HasOnlyKeysExact ==
    probe.rule = "hasOnlyKeys" =>
        LET unknown == Elements(probe.a) \ Elements(probe.b)
        IN  /\ unknown = {} => probe.out.kind = "Pass"
            /\ unknown # {} =>
                   /\ probe.out.kind = "Fail"
                   /\ NamedKeys(probe.out.msg[2]) = unknown

\* C13 witness: an object with two keys, one of them allowed, failed.
C13_Witness ==
    /\ probe.rule = "hasOnlyKeys"
    /\ Len(probe.a) = 2
    /\ probe.a[1] \in Elements(probe.b)
    /\ probe.a[2] \notin Elements(probe.b)
    /\ probe.out.kind = "Fail"

\* C14: stringIsMinLength(str, length) passes exactly when the length of
\* str is at least length, and otherwise fails with a reason that reports
\* the actual length of str.
C14_StringIsMinLengthExact ==
    probe.rule = "stringIsMinLength" =>
        LET str == probe.a[1]
            reason == probe.out.msg[2]
        IN  /\ Len(str) >= probe.n => probe.out.kind = "Pass"
            /\ Len(str) < probe.n =>
                   /\ probe.out.kind = "Fail"
                   /\ StartsWith(SubSeq(reason, Len(str) + 3, Len(reason)),
                                 " length is " \o ToString(Len(str)) \o ",")

\* C14 witness: a string exactly as long as the minimum passed.
C14_Witness ==
    /\ probe.rule = "stringIsMinLength"
    /\ Len(probe.a[1]) = probe.n
    /\ probe.n > 0
    /\ probe.out.kind = "Pass"

\* C15: evaluating a rule reference with validateRule before and after any
\* engine operation (validateRule, extractRule, makeInverseRule on any rule)
\* gives the same outcome, as long as the file system has not changed.
C15_EvaluationIsPure ==
    [][(/\ fs' = fs
        /\ loaded' = loaded
        /\ last' # last
        /\ last'.op \in {"validateRule", "extractRule", "makeInverseRule"})
       => \A ref \in Refs :
              ValidateRuleResult(ref, heap') = ValidateRuleResult(ref, heap)]_vars

\* C16: the test installed by makeInverseRule ends either in a pass with a
\* non-empty narrative string or in a failure, whatever the original test
\* settles with; it never resolves to an empty, undefined or otherwise
\* falsy value.
C16_InvertedTestNeverFalsyPass ==
    probe.rule = "invertedTest" =>
        \/ probe.out.kind = "Fail"
        \/ probe.out.kind = "Pass" /\ Truthy(probe.out.msg)

====
